---- MODULE Spec2Model ----
(***************************************************************************)
(* Model of the SD-Core AUSF operator charm (src/src/charm.py).            *)
(*                                                                         *)
(* The charm is a single-threaded event handler.  Its state is the         *)
(* workload container (three TLS files, the rendered configuration file,   *)
(* the Pebble plan), the unit status and the framework's queue of          *)
(* deferred events.  Every handler runs to completion before the next      *)
(* event is delivered, so each handler is one action.                      *)
(***************************************************************************)
EXTENDS Naturals, FiniteSets

\* ---------------------------------------------------------------- bounds
MaxFresh == 3       \* private keys and CSRs the generators can hand out in all
MaxIp == 1          \* distinct pod addresses
MaxUrl == 1         \* distinct NRF URLs
MaxDeferred == 1    \* events the framework holds deferred at once

\* ------------------------------------------------------- program constants
AUSF_GROUP_ID == "ausfGroup001"
SBI_PORT == 29509
CONFIG_FILE_PATH == "/free5gc/config/ausfcfg.conf"
SERVICE_NAME == "ausf"

VARIABLES
    can_connect,    \* self._container.can_connect()
    nrf_relation,   \* self.model.get_relation("fiveg_nrf") is not None
    nrf_url,        \* self._nrf_requires.nrf_url; 0 is empty
    config_dir,     \* self._container.exists(CONFIG_DIR)
    pod_ip,         \* output of unit-get private-address; 0 is empty
    private_key,    \* /support/TLS/ausf.key: {} absent, {content} present
    csr,            \* /support/TLS/ausf.csr
    certificate,    \* /support/TLS/ausf.pem
    config_file,    \* /free5gc/config/ausfcfg.conf
    plan,           \* services of the Pebble plan
    status,         \* self.unit.status
    next_fresh,     \* the next value the random generators return
    requests,       \* CSRs sent with request_certificate_creation so far
    deferred,       \* events the framework holds for redelivery
    torn_down,      \* certificates_relation_broken has been handled to its end
    last            \* what the last handler did, with the state it started from

env_vars == <<can_connect, nrf_relation, nrf_url, config_dir, pod_ip>>
store_vars == <<private_key, csr, certificate, config_file, plan, status>>
vars == <<can_connect, nrf_relation, nrf_url, config_dir, pod_ip, private_key, csr,
          certificate, config_file, plan, status, next_fresh, requests, deferred,
          torn_down, last>>

\* ------------------------------------------------------------------ values
\* A private key is the random value it was generated from.
\* A CSR as bytes: the key it was generated from, the random value of its own
\* (generate_csr adds a unique id to the subject), and whether the PEM text still
\* ends in a newline.
CSRs == [k : 1..MaxFresh, n : 1..MaxFresh, nl : BOOLEAN]
\* A certificate: the one the authority issued for the CSR (k, n).
Certificates == [k : 1..MaxFresh, n : 1..MaxFresh]

\* str.strip() on the PEM text of a CSR: the trailing newline goes.
strip(c) == [c EXCEPT !.nl = FALSE]

\* generate_private_key(): a key never handed out before.
generate_private_key == next_fresh

\* generate_csr(private_key, subject, sans_dns): PEM bytes, newline-terminated.
generate_csr(key) == [k |-> key, n |-> next_fresh, nl |-> TRUE]

\* The certificate the authority issues for a CSR.
CertificateFor(c) == [k |-> c.k, n |-> c.n]

Event(kind, c, cert) == [kind |-> kind, certificate_signing_request |-> c, certificate |-> cert]

ConfigureEvents == {Event("configure", {}, {})}
CreatedEvents == {Event("certificates_relation_created", {}, {})}
JoinedEvents == {Event("certificates_relation_joined", {}, {})}
BrokenEvents == {Event("certificates_relation_broken", {}, {})}
AvailableEvents == {Event("certificate_available", {c}, {CertificateFor(c)}) : c \in CSRs}
ExpiringEvents == {Event("certificate_expiring", {}, {cert}) : cert \in Certificates}

\* The authority issues, and later reports as expiring, certificates only for
\* CSRs it was sent; the CSR it names in the event may differ from the stored
\* text in its trailing newline.
Issued(e) ==
    /\ \A c \in e.certificate_signing_request : strip(c) \in requests
    /\ \A cert \in e.certificate : \E c \in requests : cert = CertificateFor(c)

\* ------------------------------------------------------- readiness facts
_relation_created == nrf_relation

_nrf_data_is_available == nrf_url # 0

_get_pod_ip == pod_ip

\* The gate with the relation check moved in front of the container check.
_first_failing_check_relation_first ==
    IF ~nrf_relation THEN "relation_created"
    ELSE IF ~can_connect THEN "can_connect"
    ELSE IF nrf_url = 0 THEN "nrf_data_is_available"
    ELSE IF ~config_dir THEN "storage"
    ELSE IF pod_ip = 0 THEN "pod_ip"
    ELSE "proceed"

\* The first check of _configure_ausf that fails, in the order of the code.
_first_failing_check ==
    IF ~can_connect THEN "can_connect"
    ELSE IF ~_relation_created THEN "relation_created"
    ELSE IF ~_nrf_data_is_available THEN "nrf_data_is_available"
    ELSE IF ~config_dir THEN "storage"
    ELSE IF _get_pod_ip = 0 THEN "pod_ip"
    ELSE "proceed"

\* The gate setting ActiveStatus while it waits for the NRF data.
_gate_status_active_early(check) ==
    IF check = "relation_created" THEN "Blocked"
    ELSE IF check \in {"proceed", "nrf_data_is_available"} THEN "Active"
    ELSE "Waiting"

\* The status each failing check sets.
_gate_status(check) ==
    IF check = "relation_created" THEN "Blocked"
    ELSE IF check = "proceed" THEN "Active"
    ELSE "Waiting"

\* Whether the failing check calls event.defer().
_gate_defers(check) == check \notin {"relation_created", "proceed"}

\* ------------------------------------------------------ ConfigReconciler
_render_config_file(ausf_group_id, ausf_ip, sbi_port, url, scheme) ==
    [ausf_group_id |-> ausf_group_id, ausf_ip |-> ausf_ip, sbi_port |-> sbi_port,
     nrf_url |-> url, scheme |-> scheme]

\* The comparison never finding a match.
_config_file_content_never_matches(file, content) == FALSE

\* pull raises PathError when the file is absent: no match.
\* The comparison reading an absent file as a match.
_config_file_content_matches_absent(file, content) ==
    file = {} \/ file = {content}

_config_file_content_matches(file, content) ==
    IF file = {} THEN FALSE ELSE file = {content}

_push_config_file(content) == {content}

_apply_ausf_config(cert, file) ==
    LET content == _render_config_file(AUSF_GROUP_ID, _get_pod_ip, SBI_PORT, nrf_url,
                                       IF cert # {} THEN "https" ELSE "http")
    IN  IF ~_config_file_content_matches(file, content)
        THEN [config_file |-> _push_config_file(content), changed |-> TRUE]
        ELSE [config_file |-> file, changed |-> FALSE]

\* ------------------------------------------------------ ServiceSupervisor
_ausf_environment_variables == [POD_IP |-> _get_pod_ip, MANAGED_BY_CONFIG_POD |-> "true"]

_pebble_layer ==
    {[name |-> SERVICE_NAME, override |-> "replace", startup |-> "enabled",
      command |-> CONFIG_FILE_PATH, environment |-> _ausf_environment_variables]}

\* An add_layer that leaves the plan as it was.
add_layer_dropped(services, layer) == services

\* add_layer(name, layer, combine=True) with override "replace".
add_layer(services, layer) ==
    {s \in services : \A l \in layer : l.name # s.name} \cup layer

\* The restart decision without force_restart.
_restart_needed_plan_only(services, layer, force_restart) ==
    services # layer

\* if plan.services != pebble_layer.services or force_restart
_restart_needed(services, layer, force_restart) ==
    services # layer \/ force_restart

\* The supervisor adding the layer in every pass and restarting when needed.
_configure_ausf_service_always_adds(services, force_restart) ==
    LET pebble_layer == _pebble_layer
    IN  IF _restart_needed(services, pebble_layer, force_restart)
        THEN [plan |-> add_layer(services, pebble_layer), layer_added |-> TRUE, restarted |-> 1]
        ELSE [plan |-> add_layer(services, pebble_layer), layer_added |-> TRUE, restarted |-> 0]

_configure_ausf_service(services, force_restart) ==
    LET pebble_layer == _pebble_layer
    IN  IF _restart_needed(services, pebble_layer, force_restart)
        THEN [plan |-> add_layer(services, pebble_layer), layer_added |-> TRUE, restarted |-> 1]
        ELSE [plan |-> services, layer_added |-> FALSE, restarted |-> 0]

\* ------------------------------------------------------- handler outcomes
\* The state a handler leaves, as a record; Base is "nothing done".
Base ==
    [private_key |-> private_key, csr |-> csr, certificate |-> certificate,
     config_file |-> config_file, plan |-> plan, status |-> status,
     next_fresh |-> next_fresh,
     defer |-> FALSE, raised |-> FALSE, gate |-> "none",
     config_file_changed |-> FALSE, spec_differed |-> FALSE, layer_added |-> FALSE,
     restarted |-> 0, requested |-> {}]

\* event.defer()
Defer(o) == [o EXCEPT !.defer = TRUE]

\* An uncaught ops.pebble.PathError: the handler stops where it is.
Raised(o) == [o EXCEPT !.raised = TRUE]

\* The pass with the final ActiveStatus left out.
_configure_ausf_status_kept(o) ==
    LET check == _first_failing_check
    IN  IF check # "proceed"
        THEN [o EXCEPT !.gate = check, !.status = _gate_status(check),
                       !.defer = _gate_defers(check)]
        ELSE LET cfg == _apply_ausf_config(o.certificate, o.config_file)
                 svc == _configure_ausf_service(o.plan, cfg.changed)
             IN  [o EXCEPT !.gate = "proceed",
                           !.config_file = cfg.config_file,
                           !.config_file_changed = cfg.changed,
                           !.spec_differed = (o.plan # _pebble_layer),
                           !.plan = svc.plan,
                           !.layer_added = svc.layer_added,
                           !.restarted = svc.restarted]

\* _configure_ausf run on the state o a handler has reached.
_configure_ausf(o) ==
    LET check == _first_failing_check
    IN  IF check # "proceed"
        THEN [o EXCEPT !.gate = check, !.status = _gate_status(check),
                       !.defer = _gate_defers(check)]
        ELSE LET cfg == _apply_ausf_config(o.certificate, o.config_file)
                 svc == _configure_ausf_service(o.plan, cfg.changed)
             IN  [o EXCEPT !.gate = "proceed",
                           !.config_file = cfg.config_file,
                           !.config_file_changed = cfg.changed,
                           !.spec_differed = (o.plan # _pebble_layer),
                           !.plan = svc.plan,
                           !.layer_added = svc.layer_added,
                           !.restarted = svc.restarted,
                           !.status = "Active"]

\* ------------------------------------------------------------ IdentityStore
_private_key_is_stored(o) == o.private_key # {}

_csr_is_stored(o) == o.csr # {}

_certificate_is_stored(o) == o.certificate # {}

\* The content of a stored file (pull + read); callers check presence first or raise.
Content(file) == CHOOSE x \in file : TRUE

_store_private_key(o, key) == [o EXCEPT !.private_key = {key}]

\* The CSR is pushed as csr.decode().strip().
_store_csr(o, c) == [o EXCEPT !.csr = {strip(c)}]

_store_certificate(o, cert) == [o EXCEPT !.certificate = {cert}]

_delete_private_key(o) ==
    IF ~_private_key_is_stored(o) THEN o ELSE [o EXCEPT !.private_key = {}]

\* The teardown leaving the CSR file behind.
_delete_csr_skipped(o) == o

_delete_csr(o) ==
    IF ~_csr_is_stored(o) THEN o ELSE [o EXCEPT !.csr = {}]

\* The teardown leaving the certificate file behind.
_delete_certificate_skipped(o) == o

_delete_certificate(o) ==
    IF ~_certificate_is_stored(o) THEN o ELSE [o EXCEPT !.certificate = {}]

\* ----------------------------------------------- CertificateLifecycleManager
_generate_private_key(o) ==
    [_store_private_key(o, generate_private_key) EXCEPT !.next_fresh = o.next_fresh + 1]

\* _get_stored_private_key pulls the key file: PathError when it is absent.
_request_new_certificate(o) ==
    IF ~_private_key_is_stored(o) THEN Raised(o)
    ELSE LET c == generate_csr(Content(o.private_key))
         IN  [_store_csr(o, c) EXCEPT !.requested = {c}, !.next_fresh = o.next_fresh + 1]

\* The handler generating the key without asking whether the container is reachable.
_on_certificates_relation_created_unchecked(event) ==
    _generate_private_key(Base)

_on_certificates_relation_created(event) ==
    IF ~can_connect THEN Defer(Base)
    ELSE _generate_private_key(Base)

\* The teardown without the reconciliation pass after it.
_on_certificates_relation_broken_no_configure(event) ==
    IF ~can_connect THEN Defer(Base)
    ELSE _delete_certificate(_delete_csr(_delete_private_key(Base)))

_on_certificates_relation_broken(event) ==
    IF ~can_connect THEN Defer(Base)
    ELSE _configure_ausf(_delete_certificate(_delete_csr(_delete_private_key(Base))))

\* The relation-joined handler without its check of the private key.
_private_key_gate_missing(o) == TRUE

\* if not self._private_key_is_stored(): defer
_private_key_gate(o) == _private_key_is_stored(o)

_on_certificates_relation_joined(event) ==
    IF ~can_connect THEN Defer(Base)
    ELSE IF ~_private_key_gate(Base) THEN Defer(Base)
    ELSE _request_new_certificate(Base)

\* The CSR comparison after stripping the event's CSR.
_csr_matches_stripped(event, o) ==
    {strip(c) : c \in event.certificate_signing_request} = o.csr

\* event.certificate_signing_request != self._get_stored_csr()
_csr_matches(event, o) == event.certificate_signing_request = o.csr

\* The handler storing the certificate without the reconciliation pass after it.
_on_certificate_available_no_configure(event) ==
    IF ~can_connect THEN Defer(Base)
    ELSE IF ~_csr_is_stored(Base) THEN Base
    ELSE IF ~_csr_matches(event, Base) THEN Base
    ELSE _store_certificate(Base, Content(event.certificate))

_on_certificate_available(event) ==
    IF ~can_connect THEN Defer(Base)
    ELSE IF ~_csr_is_stored(Base) THEN Base
    ELSE IF ~_csr_matches(event, Base) THEN Base
    ELSE _configure_ausf(_store_certificate(Base, Content(event.certificate)))

\* The comparison of the expiring handler inverted.
_certificate_matches_inverted(event, o) == event.certificate # o.certificate

\* event.certificate != self._get_stored_certificate()
_certificate_matches(event, o) == event.certificate = o.certificate

\* A renewal that removes the expiring certificate when it requests the new one.
_on_certificate_expiring_drops_certificate(event) ==
    IF ~can_connect THEN Defer(Base)
    ELSE IF ~_certificate_is_stored(Base) THEN Raised(Base)
    ELSE IF ~_certificate_matches(event, Base) THEN Base
    ELSE _delete_certificate(_request_new_certificate(Base))

\* _get_stored_certificate pulls the certificate file without checking that it
\* exists: PathError when no certificate is stored.
_on_certificate_expiring(event) ==
    IF ~can_connect THEN Defer(Base)
    ELSE IF ~_certificate_is_stored(Base) THEN Raised(Base)
    ELSE IF ~_certificate_matches(event, Base) THEN Base
    ELSE _request_new_certificate(Base)

\* ------------------------------------------------------------------- state
Pre ==
    [private_key |-> private_key, csr |-> csr, certificate |-> certificate,
     config_file |-> config_file, plan |-> plan, status |-> status]

NoPre ==
    [private_key |-> {}, csr |-> {}, certificate |-> {}, config_file |-> {},
     plan |-> {}, status |-> "Unknown"]

\* The value of last after a change of the environment: no handler has run since.
NoHandler ==
    [op |-> "none", event |-> Event("none", {}, {}), redelivered |-> FALSE,
     defer |-> FALSE, raised |-> FALSE, gate |-> "none",
     config_file_changed |-> FALSE, spec_differed |-> FALSE, layer_added |-> FALSE,
     restarted |-> 0, requested |-> {}, after_proceed |-> FALSE, pre |-> NoPre]

Init ==
    /\ can_connect = FALSE
    /\ nrf_relation = FALSE
    /\ nrf_url = 0
    /\ config_dir = FALSE
    /\ pod_ip = 0
    /\ private_key = {}
    /\ csr = {}
    /\ certificate = {}
    /\ config_file = {}
    /\ plan = {}
    /\ status = "Unknown"
    /\ next_fresh = 1
    /\ requests = {}
    /\ deferred = {}
    /\ torn_down = FALSE
    /\ last = NoHandler

\* ------------------------------------------------------------- environment
\* The workload container becomes reachable (pebble-ready).
ContainerReady ==
    /\ ~can_connect
    /\ can_connect' = TRUE
    /\ last' = NoHandler
    /\ UNCHANGED <<nrf_relation, nrf_url, config_dir, pod_ip, store_vars,
                   next_fresh, requests, deferred, torn_down>>

\* The workload container is replaced: Pebble starts again from an empty plan;
\* the files live on attached storage and stay.
ContainerRestart ==
    /\ can_connect
    /\ can_connect' = FALSE
    /\ plan' = {}
    /\ last' = NoHandler
    /\ UNCHANGED <<nrf_relation, nrf_url, config_dir, pod_ip, private_key, csr,
                   certificate, config_file, status, next_fresh, requests,
                   deferred, torn_down>>

\* The fiveg_nrf relation appears, publishes or changes its URL, or goes away
\* (and its URL with it).
NrfChange ==
    /\ \E r \in BOOLEAN, u \in 0..MaxUrl :
          /\ (~r => u = 0)
          /\ <<r, u>> # <<nrf_relation, nrf_url>>
          /\ nrf_relation' = r
          /\ nrf_url' = u
    /\ last' = NoHandler
    /\ UNCHANGED <<can_connect, config_dir, pod_ip, store_vars, next_fresh, requests,
                   deferred, torn_down>>

\* The configuration storage is attached.
StorageAttached ==
    /\ ~config_dir
    /\ config_dir' = TRUE
    /\ last' = NoHandler
    /\ UNCHANGED <<can_connect, nrf_relation, nrf_url, pod_ip, store_vars, next_fresh,
                   requests, deferred, torn_down>>

\* The pod address is assigned, changes or is lost.
PodIpChange ==
    /\ \E ip \in 0..MaxIp : ip # pod_ip /\ pod_ip' = ip
    /\ last' = NoHandler
    /\ UNCHANGED <<can_connect, nrf_relation, nrf_url, config_dir, store_vars,
                   next_fresh, requests, deferred, torn_down>>

\* ---------------------------------------------------------------- handlers
\* One handler run on event e with outcome o; redelivered says the framework
\* re-emitted e from its deferred queue.
Run(e, redelivered, o) ==
    /\ IF redelivered THEN e \in deferred ELSE Issued(e)
    /\ o.next_fresh <= MaxFresh + 1
    /\ (o.defer /\ e \notin deferred) => Cardinality(deferred) < MaxDeferred
    /\ private_key' = o.private_key
    /\ csr' = o.csr
    /\ certificate' = o.certificate
    /\ config_file' = o.config_file
    /\ plan' = o.plan
    /\ status' = o.status
    /\ next_fresh' = o.next_fresh
    /\ requests' = requests \cup {strip(c) : c \in o.requested}
    /\ deferred' = IF o.defer THEN deferred \cup {e}
                   ELSE IF redelivered THEN deferred \ {e} ELSE deferred
    /\ torn_down' = (torn_down \/ (e.kind = "certificates_relation_broken" /\ can_connect))
    /\ last' = [op |-> e.kind, event |-> e, redelivered |-> redelivered,
                defer |-> o.defer, raised |-> o.raised, gate |-> o.gate,
                config_file_changed |-> o.config_file_changed,
                spec_differed |-> o.spec_differed, layer_added |-> o.layer_added,
                restarted |-> o.restarted, requested |-> o.requested,
                after_proceed |-> (last.gate = "proceed"), pre |-> Pre]
    /\ UNCHANGED env_vars

\* ausf_pebble_ready, fiveg_nrf_relation_joined and nrf_available all run
\* _configure_ausf.
ConfigureAusf(redelivered) ==
    \E e \in ConfigureEvents : Run(e, redelivered, _configure_ausf(Base))

CertificatesRelationCreated(redelivered) ==
    \E e \in CreatedEvents : Run(e, redelivered, _on_certificates_relation_created(e))

CertificatesRelationJoined(redelivered) ==
    \E e \in JoinedEvents : Run(e, redelivered, _on_certificates_relation_joined(e))

CertificatesRelationBroken(redelivered) ==
    \E e \in BrokenEvents : Run(e, redelivered, _on_certificates_relation_broken(e))

CertificateAvailable(redelivered) ==
    \E e \in AvailableEvents : Run(e, redelivered, _on_certificate_available(e))

CertificateExpiring(redelivered) ==
    \E e \in ExpiringEvents : Run(e, redelivered, _on_certificate_expiring(e))

Next ==
    \/ ContainerReady
    \/ ContainerRestart
    \/ NrfChange
    \/ StorageAttached
    \/ PodIpChange
    \/ \E r \in BOOLEAN : ConfigureAusf(r)
    \/ \E r \in BOOLEAN : CertificatesRelationCreated(r)
    \/ \E r \in BOOLEAN : CertificatesRelationJoined(r)
    \/ \E r \in BOOLEAN : CertificatesRelationBroken(r)
    \/ \E r \in BOOLEAN : CertificateAvailable(r)
    \/ \E r \in BOOLEAN : CertificateExpiring(r)

Spec == Init /\ [][Next]_vars

\* The framework re-emits every deferred event at a later dispatch: a
\* redelivery that stays possible is eventually made.
Redelivery ==
    /\ WF_vars(ConfigureAusf(TRUE))
    /\ WF_vars(CertificatesRelationCreated(TRUE))
    /\ WF_vars(CertificatesRelationJoined(TRUE))
    /\ WF_vars(CertificatesRelationBroken(TRUE))
    /\ WF_vars(CertificateAvailable(TRUE))
    /\ WF_vars(CertificateExpiring(TRUE))

LiveSpec == Init /\ [][Next]_vars /\ Redelivery

\* ------------------------------------------------------------------ claims
\* The facts below are read in the state a handler leaves.  A handler changes no
\* readiness fact, and every change of a readiness fact resets last, so while
\* last.op names a handler the readiness facts are those the handler saw.

PassRan == last.gate # "none"
PassProceeded == last.gate = "proceed"
GateFailed == last.gate \notin {"none", "proceed"}
WaitingDeferred == status = "Waiting" /\ last.defer
BlockedNotDeferred == status = "Blocked" /\ ~last.defer
Scheme == Content(config_file).scheme

\* C1: a reconciliation pass is decided by the first failing check in the order
\* container, relation, URL, storage, pod address: Waiting and deferred for a
\* failing container, URL, storage or address check, Blocked and not deferred
\* for a failing relation check; an unreachable container gives Waiting and
\* deferred even when the relation is missing too.
C1_GateOrder ==
    PassRan =>
        /\ ~can_connect => WaitingDeferred
        /\ (can_connect /\ ~nrf_relation) => BlockedNotDeferred
        /\ (can_connect /\ nrf_relation /\ nrf_url = 0) => WaitingDeferred
        /\ (can_connect /\ nrf_relation /\ nrf_url # 0 /\ ~config_dir) => WaitingDeferred
        /\ (can_connect /\ nrf_relation /\ nrf_url # 0 /\ config_dir /\ pod_ip = 0)
              => WaitingDeferred
        /\ (can_connect /\ nrf_relation /\ nrf_url # 0 /\ config_dir /\ pod_ip # 0)
              <=> PassProceeded

C1_Witness ==
    /\ last.op = "configure"
    /\ ~can_connect
    /\ ~nrf_relation
    /\ WaitingDeferred

\* C2: a pass whose gate does not proceed writes no configuration, applies no
\* service specification, restarts nothing and does not set Active.
C2_GateFailedFrame ==
    GateFailed =>
        /\ config_file = last.pre.config_file
        /\ plan = last.pre.plan
        /\ ~last.config_file_changed
        /\ ~last.layer_added
        /\ last.restarted = 0
        /\ status # "Active"

C2_Witness ==
    /\ last.op = "configure"
    /\ can_connect
    /\ nrf_relation
    /\ nrf_url = 0
    /\ last.pre.status = "Active"
    /\ last.pre.config_file # {}
    /\ WaitingDeferred

\* C3: in a pass that passes the gate the service is restarted exactly when the
\* applied specification differed from the desired one or the configuration
\* file was changed in the pass.
C3_RestartIff ==
    PassProceeded =>
        (last.restarted = 1
            <=> (last.pre.plan # _pebble_layer \/ config_file # last.pre.config_file))

C3_Witness ==
    /\ PassProceeded
    /\ last.pre.plan = _pebble_layer
    /\ config_file # last.pre.config_file
    /\ last.restarted = 1

\* C4: a pass that follows a pass that passed the gate, with no change of any
\* external input in between, reports the configuration unchanged, writes and
\* restarts nothing, and leaves every artifact and the applied specification
\* as they were.
C4_Idempotent ==
    /\ (last.op = "configure" /\ last.after_proceed) =>
          /\ PassProceeded
          /\ ~last.config_file_changed
          /\ last.restarted = 0
          /\ config_file = last.pre.config_file
          /\ plan = last.pre.plan
          /\ private_key = last.pre.private_key
          /\ csr = last.pre.csr
          /\ certificate = last.pre.certificate
          /\ status = "Active"
    /\ (PassRan /\ last.after_proceed /\ (certificate = {} <=> last.pre.certificate = {})) =>
          /\ PassProceeded
          /\ ~last.config_file_changed
          /\ last.restarted = 0
          /\ config_file = last.pre.config_file
          /\ plan = last.pre.plan

C4_Witness ==
    /\ last.op = "configure"
    /\ last.after_proceed
    /\ PassProceeded
    /\ last.restarted = 0
    /\ config_file # {}
    /\ config_file = last.pre.config_file

\* The certificate-available event names exactly the CSR that is stored.
AvailableMatches ==
    /\ last.pre.csr # {}
    /\ last.event.certificate_signing_request = last.pre.csr

\* C5: with the container reachable, a certificate-available event stores its
\* certificate exactly when a CSR is stored and the event's CSR equals it; on
\* a mismatch certificate, CSR and key stay, the event is not deferred and no
\* pass runs.
C5_CertificateAcceptance ==
    (last.op = "certificate_available" /\ can_connect) =>
        /\ AvailableMatches => (certificate = last.event.certificate /\ PassRan)
        /\ ~AvailableMatches =>
              /\ certificate = last.pre.certificate
              /\ csr = last.pre.csr
              /\ private_key = last.pre.private_key
              /\ ~last.defer
              /\ ~PassRan

C5_Witness ==
    /\ last.op = "certificate_available"
    /\ can_connect
    /\ AvailableMatches
    /\ last.pre.certificate = {}
    /\ certificate = last.event.certificate

\* The certificate-expiring event names exactly the certificate that is stored.
ExpiringMatches ==
    /\ last.pre.certificate # {}
    /\ last.event.certificate = last.pre.certificate

\* The handler generated a CSR, stored it and sent it to the authority.
Renewed ==
    /\ last.requested # {}
    /\ csr = {strip(c) : c \in last.requested}
    /\ csr # last.pre.csr

\* C6: with the container reachable, a certificate-expiring event generates
\* and stores a new CSR and requests a certificate exactly when the event's
\* certificate equals the stored one.
C6_RenewalAcceptance ==
    (last.op = "certificate_expiring" /\ can_connect) =>
        /\ ExpiringMatches <=> Renewed
        /\ ~ExpiringMatches => (last.requested = {} /\ csr = last.pre.csr)

C6_Witness ==
    /\ last.op = "certificate_expiring"
    /\ can_connect
    /\ ExpiringMatches
    /\ Renewed

\* C7: a certificate-expiring event that arrives while no certificate is stored,
\* with the container reachable, is ignored: no error, no deferral, no change
\* of a stored artifact, no request.
C7_ExpiringWithoutCertificateIgnored ==
    (last.op = "certificate_expiring" /\ can_connect /\ last.pre.certificate = {}) =>
        /\ ~last.raised
        /\ ~last.defer
        /\ last.requested = {}
        /\ private_key = last.pre.private_key
        /\ csr = last.pre.csr
        /\ certificate = last.pre.certificate
        /\ config_file = last.pre.config_file

\* C8: handling certificates-relation-created while a private key is stored
\* leaves the stored private key as it is.
C8_CreatedKeepsKey ==
    (last.op = "certificates_relation_created" /\ last.pre.private_key # {}) =>
        private_key = last.pre.private_key

\* The handler of certificates-relation-broken, run with the container
\* reachable, leaves no artifact, raises nothing and runs a pass.
TeardownClears ==
    (last.op = "certificates_relation_broken" /\ can_connect) =>
        /\ private_key = {}
        /\ csr = {}
        /\ certificate = {}
        /\ ~last.raised
        /\ PassRan

\* C9 as stated: after the teardown every pass that passes the gate, that of
\* the teardown or any later one, stores the configuration with scheme http.
C9_TeardownHttpEver ==
    /\ TeardownClears
    /\ (torn_down /\ PassProceeded) => Scheme = "http"

\* C9, amended: the teardown leaves none of the three artifacts, without error,
\* and runs a pass; that pass, and every later pass run while no certificate
\* has been stored again, stores the configuration with scheme http when it
\* passes the gate.
C9_TeardownHttp ==
    /\ TeardownClears
    /\ (last.op = "certificates_relation_broken" /\ PassProceeded) => Scheme = "http"
    /\ (torn_down /\ PassProceeded /\ certificate = {}) => Scheme = "http"

C9_Witness ==
    /\ last.op = "certificates_relation_broken"
    /\ can_connect
    /\ last.pre.certificate # {}
    /\ last.pre.config_file # {}
    /\ Content(last.pre.config_file).scheme = "https"
    /\ PassProceeded
    /\ certificate = {}
    /\ Scheme = "http"

\* C10: a certificate request is sent, and a CSR stored, only while a private
\* key is stored, on the relation-joined path (which defers when the key is
\* absent) and on the renewal path.
C10_RequestNeedsKey ==
    /\ last.requested # {} =>
          /\ last.pre.private_key # {}
          /\ private_key = last.pre.private_key
          /\ \A c \in last.requested : {c.k} = private_key /\ csr = {strip(c)}
          /\ last.op \in {"certificates_relation_joined", "certificate_expiring"}
    /\ (last.op = "certificates_relation_joined" /\ can_connect /\ last.pre.private_key = {}) =>
          /\ last.defer
          /\ ~last.raised
          /\ last.requested = {}
          /\ csr = last.pre.csr
    /\ (last.op # "none" /\ csr # {} /\ csr # last.pre.csr) => last.requested # {}

C10_Witness ==
    /\ last.op = "certificate_expiring"
    /\ last.requested # {}
    /\ private_key # {}
    /\ certificate # {}

\* All five readiness facts hold.
AllReady ==
    /\ can_connect
    /\ nrf_relation
    /\ nrf_url # 0
    /\ config_dir
    /\ pod_ip # 0

\* The rendering of the inputs as they are now.
Rendering ==
    _render_config_file(AUSF_GROUP_ID, pod_ip, SBI_PORT, nrf_url,
                        IF certificate # {} THEN "https" ELSE "http")

\* C11: a certificate-available event that matches the stored CSR, handled
\* while all readiness facts hold and the stored configuration has scheme
\* http, stores the certificate, runs a pass, rewrites the configuration with
\* scheme https, restarts the service exactly once and sets Active, all in the
\* handling of that one event.
C11_CertificateSwitchesToHttps ==
    (/\ last.op = "certificate_available"
     /\ AllReady
     /\ AvailableMatches
     /\ last.pre.config_file # {}
     /\ Content(last.pre.config_file).scheme = "http") =>
        /\ certificate = last.event.certificate
        /\ PassProceeded
        /\ last.config_file_changed
        /\ config_file # last.pre.config_file
        /\ config_file = {Rendering}
        /\ Scheme = "https"
        /\ last.restarted = 1
        /\ status = "Active"

C11_Witness ==
    /\ last.op = "certificate_available"
    /\ AllReady
    /\ AvailableMatches
    /\ last.pre.config_file # {}
    /\ Content(last.pre.config_file).scheme = "http"
    /\ last.pre.plan = _pebble_layer
    /\ Scheme = "https"
    /\ last.restarted = 1
    /\ status = "Active"

\* C12: a pass that passes the gate while no configuration file is stored
\* treats the absence as a mismatch and not as an error: the configuration is
\* written (with scheme http when no certificate is stored), the service is
\* restarted exactly once in that pass, and the status becomes Active.
C12_AbsentFileIsMismatch ==
    (PassProceeded /\ last.pre.config_file = {}) =>
        /\ ~last.raised
        /\ last.config_file_changed
        /\ config_file = {Rendering}
        /\ (certificate = {} => Scheme = "http")
        /\ (certificate # {} => Scheme = "https")
        /\ last.restarted = 1
        /\ status = "Active"

C12_Witness ==
    /\ PassProceeded
    /\ last.pre.config_file = {}
    /\ certificate = {}
    /\ config_file # {}
    /\ Scheme = "http"
    /\ last.restarted = 1
    /\ status = "Active"

\* The five handlers of the certificate lifecycle.
LifecycleHandlers ==
    {"certificates_relation_created", "certificates_relation_joined",
     "certificates_relation_broken", "certificate_available",
     "certificate_expiring"}

\* The last handler left the stored artifacts, the configuration file, the
\* applied specification and the status as they were.
NothingChanged ==
    /\ private_key = last.pre.private_key
    /\ csr = last.pre.csr
    /\ certificate = last.pre.certificate
    /\ config_file = last.pre.config_file
    /\ plan = last.pre.plan
    /\ status = last.pre.status

\* C13: each of the five certificate-lifecycle handlers, invoked while the
\* container is unreachable, defers its event and returns without error and
\* without changing a stored artifact, the configuration file, the applied
\* specification or the status.
C13_UnreachableDefers ==
    (last.op \in LifecycleHandlers /\ ~can_connect) =>
        /\ last.defer
        /\ last.event \in deferred
        /\ ~last.raised
        /\ last.requested = {}
        /\ last.restarted = 0
        /\ NothingChanged

C13_Witness ==
    /\ last.op = "certificates_relation_created"
    /\ ~can_connect
    /\ last.defer
    /\ private_key = {}
    /\ status = last.pre.status

\* The last handler ran a pass whose gate failed and deferred the event.
GateDeferred == GateFailed /\ last.defer /\ last.event \in deferred

\* A pass has just passed the gate, the stored configuration is the rendering
\* of the inputs as they are, and the status is Active.
Converged == PassProceeded /\ config_file = {Rendering} /\ status = "Active"

\* An event whose handler always runs the pass (the events bound to the pass
\* and the relation-broken event) awaits redelivery.
PassEventDeferred ==
    \E e \in deferred : e.kind \in {"configure", "certificates_relation_broken"}

\* C14 as stated: once an event was deferred by the gate and all five
\* readiness facts come to hold for good, redelivery eventually brings a pass
\* that passes the gate, with the stored configuration equal to the rendering
\* of the current inputs and the status Active.
C14_DeferredConvergesAlways ==
    [](GateDeferred => (<>[]AllReady => <>Converged))

\* C14: when an event whose handler always runs the pass is still awaiting
\* redelivery at a point from which all five readiness facts hold for good,
\* redelivery eventually brings a pass that passes the gate, with the stored
\* configuration equal to the rendering of the current inputs and the status
\* Active.
C14_DeferredConverges ==
    []((PassEventDeferred /\ []AllReady) => <>Converged)

C14_Witness ==
    /\ last.op = "configure"
    /\ last.redelivered
    /\ last.pre.status = "Waiting"
    /\ AllReady
    /\ Converged

\* C15: the service is never (re)started partially configured: a restart
\* happens only in a pass that passed the gate, after the configuration step
\* of that pass, so at the restart the stored configuration file exists and
\* equals the rendering of the inputs the pass observed, and the applied
\* specification equals the desired one.
C15_RestartFullyConfigured ==
    (last.restarted # 0) =>
        /\ PassProceeded
        /\ last.restarted = 1
        /\ config_file # {}
        /\ config_file = {Rendering}
        /\ last.layer_added
        /\ plan = _pebble_layer

C15_Witness ==
    /\ last.restarted = 1
    /\ last.pre.config_file # {}
    /\ last.pre.config_file # config_file
    /\ last.pre.plan # plan
    /\ config_file = {Rendering}
    /\ plan = _pebble_layer

\* Before the last handler a certificate was stored together with a CSR newer
\* than the one it was issued for, as an accepted renewal leaves them.
RenewalPending ==
    /\ last.op # "none"
    /\ last.pre.certificate # {}
    /\ last.pre.csr # {}
    /\ \A c \in last.pre.csr : c.n > Content(last.pre.certificate).n

\* C16 as stated: an accepted renewal leaves the stored certificate as it was
\* and replaces the stored CSR by the newly generated one; the old certificate
\* then stays stored until a certificate-available event whose CSR equals the
\* stored CSR arrives, and a certificate-available event that carries the
\* previous CSR is ignored.
C16_RenewalKeepsCertificateUntilAvailable ==
    /\ (last.op = "certificate_expiring" /\ can_connect /\ ExpiringMatches) =>
          /\ certificate = last.pre.certificate
          /\ Renewed
    /\ (RenewalPending /\ certificate # last.pre.certificate) =>
          /\ last.op = "certificate_available"
          /\ AvailableMatches
          /\ certificate = last.event.certificate
    /\ (last.op = "certificate_available" /\ can_connect /\ ~AvailableMatches) =>
          /\ certificate = last.pre.certificate
          /\ csr = last.pre.csr

\* C16: an accepted renewal leaves the stored certificate and key as they
\* were and replaces the stored CSR by the newly generated one; the old
\* certificate then stays stored until a certificate-available event whose CSR
\* equals the stored CSR arrives or the relation is removed, which deletes it
\* with the rest of the identity; a certificate-available event that carries
\* another CSR, the previous one included, leaves certificate and CSR as they
\* are.
C16_RenewalKeepsCertificate ==
    /\ (last.op = "certificate_expiring" /\ can_connect /\ ExpiringMatches) =>
          /\ certificate = last.pre.certificate
          /\ private_key = last.pre.private_key
          /\ Renewed
          /\ \A c \in csr : c.n = next_fresh - 1 /\ c.k \in last.pre.private_key
    /\ (last.op # "none" /\ certificate # last.pre.certificate) =>
          \/ /\ last.op = "certificate_available"
             /\ AvailableMatches
             /\ certificate = last.event.certificate
          \/ /\ last.op = "certificates_relation_broken"
             /\ certificate = {}
    /\ (last.op = "certificate_available" /\ can_connect /\ ~AvailableMatches) =>
          /\ certificate = last.pre.certificate
          /\ csr = last.pre.csr
          /\ ~PassRan

\* A certificate-available event for the CSR of the stored certificate arrives
\* after a renewal has replaced that CSR, and is ignored.
C16_Witness ==
    /\ last.op = "certificate_available"
    /\ can_connect
    /\ last.pre.certificate # {}
    /\ last.event.certificate = last.pre.certificate
    /\ last.event.certificate_signing_request # last.pre.csr
    /\ \A c \in csr : c.n > Content(certificate).n
    /\ certificate = last.pre.certificate

\* C17 as stated: every pass that passes the gate applies the desired service
\* specification (add_layer with combine), also a pass in which the
\* specification is unchanged and no restart is needed.
C17_LayerAddedEveryPass ==
    PassProceeded => last.layer_added

\* C17: a pass that passes the gate applies the desired service specification
\* exactly when it restarts the service, that is when the applied
\* specification differs from the desired one or the configuration file
\* changed; either way the applied specification equals the desired one after
\* the pass.
C17_LayerAddedWhenRestarting ==
    PassProceeded =>
        /\ last.layer_added <=> (last.spec_differed \/ last.config_file_changed)
        /\ last.layer_added <=> (last.restarted = 1)
        /\ plan = _pebble_layer

C17_Witness ==
    /\ PassProceeded
    /\ ~last.layer_added
    /\ last.restarted = 0
    /\ plan = _pebble_layer
    /\ plan = last.pre.plan

\* C18: after any sequence of handled events, a stored certificate implies a
\* stored CSR and a stored CSR implies a stored private key.
C18_ArtifactChain ==
    /\ certificate # {} => csr # {}
    /\ csr # {} => private_key # {}

C18_Witness ==
    /\ last.op = "certificates_relation_broken"
    /\ can_connect
    /\ last.pre.certificate # {}
    /\ last.pre.csr # {}
    /\ last.pre.private_key # {}
    /\ certificate = {}
    /\ csr = {}
    /\ private_key = {}

\* C19: whenever a certificate is stored, it was issued for a CSR that was
\* generated from the private key stored now.
C19_CertificateOfStoredKey ==
    certificate # {} => \A cert \in certificate : private_key = {cert.k}

\* C20: whenever the status is Active, the stored configuration file has
\* scheme https exactly when a certificate is stored; a handler that adds or
\* removes the certificate re-renders the configuration in the same
\* invocation or leaves the status other than Active.
C20_SchemeFollowsCertificate ==
    /\ status = "Active" =>
          /\ config_file # {}
          /\ Scheme = "https" <=> certificate # {}
    /\ (last.op # "none" /\ (certificate = {}) # (last.pre.certificate = {})) =>
          /\ last.op \in {"certificate_available", "certificates_relation_broken"}
          /\ \/ PassProceeded /\ config_file = {Rendering}
             \/ status # "Active"

C20_Witness ==
    /\ last.op = "certificate_available"
    /\ last.pre.certificate = {}
    /\ certificate # {}
    /\ last.pre.status = "Active"
    /\ GateFailed
    /\ status # "Active"
    /\ config_file # {}
    /\ Scheme = "http"

====
